---- MODULE Spec2Model ----
(***************************************************************************)
(* Model of backend/vector_search.py: the VectorStore class (sentence      *)
(* embeddings + a flat FAISS L2 index or a Pinecone index, with a parallel *)
(* metadata list persisted as JSON).                                       *)
(*                                                                         *)
(* The embedding model, the FAISS index, the Pinecone service and the two  *)
(* files on disk are the environment of the class.  They are modelled by   *)
(* what the class observes of them:                                        *)
(*   - encode is a fixed deterministic map from text to a vector; vectors  *)
(*     are short integer tuples and the distance is squared L2;            *)
(*   - IndexFlatL2.search(x, k) returns exactly k slots, the stored        *)
(*     vectors by non-decreasing distance (any order among equal           *)
(*     distances) and the unfilled slots as label -1 with distance FLT_MAX;*)
(*   - a file is missing, readable with a content, or unreadable (a write  *)
(*     that failed after the file was opened for writing);                 *)
(*   - every call into the environment may raise.                          *)
(* store_snippet, search and delete_snippet are coroutines without any     *)
(* await, so each call runs to completion as one step of the event loop.   *)
(*                                                                         *)
(* The module also models the parts of backend/main.py that use the store: *)
(* the /api/generate, /api/debug and /api/semantic-search handlers, and    *)
(* the websocket endpoint with its ConnectionManager.                      *)
(***************************************************************************)
EXTENDS Integers, Sequences, FiniteSets, TLC

\* Bounds of the model.
MaxStored == 2
MaxLimit == 2

None == "None"

(***************************************************************************)
(* Inputs.                                                                 *)
(***************************************************************************)
Languages == {"python", "javascript"}

\* The snippets the callers store (code, description, language, user_id).
Snippets ==
    { [code |-> "def add(a, b)", description |-> "add two numbers",
       language |-> "python", user_id |-> None],
      [code |-> "createServer()", description |-> "http server",
       language |-> "javascript", user_id |-> "u1"] }

Queries == {"hello function"}

LanguageFilters == Languages \cup {None}

Limits == 1..MaxLimit

\* f"{description}\n\n{code}"
SearchableText(code, description) == description \o "\n\n" \o code

\* self.encoder.encode([text])[0]: a deterministic map from text to a vector.
Encode(text) ==
    CASE text = SearchableText("def add(a, b)", "add two numbers") -> <<0, 0>>
      [] text = SearchableText("createServer()", "http server") -> <<3, 0>>
      [] text = "hello function" -> <<1, 1>>
      [] OTHER -> <<2, 2>>

\* str(n) of a non-negative integer.
Str(n) == ToString(n)

\* Python's seq[i], 0-based, a negative i counted from the end; it raises
\* IndexError unless -len(seq) <= i < len(seq).
PyHasItem(seq, i) == -Len(seq) <= i /\ i < Len(seq)

PyItem(seq, i) == IF i >= 0 THEN seq[i + 1] ELSE seq[Len(seq) + i + 1]

(***************************************************************************)
(* The environment: vectors, the flat index, the files, the service.       *)
(***************************************************************************)
\* Squared Euclidean distance, the metric of faiss.IndexFlatL2.
L2(u, v) == (u[1] - v[1]) * (u[1] - v[1]) + (u[2] - v[2]) * (u[2] - v[2])

\* The distance IndexFlatL2.search reports for a slot it could not fill
\* (the largest float; here any number above every real distance).
FLT_MAX == 2 ^ 20

\* The values of self.index.
NoIndex == [kind |-> None, vectors |-> <<>>]
IndexFlatL2(vectors) == [kind |-> "IndexFlatL2", vectors |-> vectors]
PineconeIndex == [kind |-> "pinecone.Index", vectors |-> <<>>]

\* A file on disk.
Missing == [state |-> "missing", content |-> <<>>]
Unreadable == [state |-> "unreadable", content |-> <<>>]
File(content) == [state |-> "ok", content |-> content]

\* self.embedding_dim = 384; here the length of the vectors of Encode.
embedding_dim == 2

\* A vector written to an index file by an encoder of another dimension.
ForeignVector == <<1, 1, 1>>

\* index.d: the dimension the index was created with, which is the length
\* of the vectors it holds; an index without vectors is one created by
\* IndexFlatL2(self.embedding_dim).
Dim(idx) == IF idx.vectors = <<>> THEN embedding_dim ELSE Len(idx.vectors[1])

\* index.add(x) and index.search(x, k) check the length of x against index.d
\* before anything else and raise AssertionError when they differ.
Mismatch(idx, x) == Dim(idx) # Len(x)
IndexRaised(idx, x) == IF Mismatch(idx, x) THEN "AssertionError" ELSE "RuntimeError"

\* index.add(np.array([embedding]))
IndexAdd(idx, embedding) == IndexFlatL2(Append(idx.vectors, embedding))

\* index.search(np.array([q]), k): the possible answers, each a sequence of
\* k slots <<label, distance>> (parallel arrays indices[0], distances[0]).
IndexSearch(idx, q, k) ==
    LET n == Len(idx.vectors)
        m == IF k < n THEN k ELSE n
        d(i) == L2(idx.vectors[i + 1], q)
        Orders ==
            { s \in [1..m -> 0..(n - 1)] :
                /\ \A a, b \in 1..m : a < b => s[a] # s[b] /\ d(s[a]) <= d(s[b])
                /\ \A j \in 0..(n - 1) :
                      (\A a \in 1..m : s[a] # j) => \A a \in 1..m : d(s[a]) <= d(j) }
    IN  { [j \in 1..k |->
              IF j <= m THEN [idx |-> s[j], distance |-> d(s[j])]
                        ELSE [idx |-> -1, distance |-> FLT_MAX]] : s \in Orders }

\* What the Pinecone service scores a stored vector against a query
\* (a similarity: larger is closer).
Similarity(u, v) == u[1] * v[1] + u[2] * v[2]

\* index.upsert([(id, values, metadata)]) on the service's content.
Upsert(service, id, values, metadata) ==
    [x \in DOMAIN service \cup {id} |->
        IF x = id THEN [values |-> values, metadata |-> metadata] ELSE service[x]]

\* index.delete([id]) on the service's content.
Delete(service, id) == [x \in DOMAIN service \ {id} |-> service[x]]

\* index.query(q, top_k, include_metadata, filter): the possible match lists,
\* best score first, only vectors whose metadata passes the filter.
PineconeQuery(service, q, top_k, language) ==
    LET ok == { x \in DOMAIN service :
                  language = None \/ service[x].metadata.language = language }
        m == IF top_k < Cardinality(ok) THEN top_k ELSE Cardinality(ok)
        sc(x) == Similarity(service[x].values, q)
        Orders ==
            { s \in [1..m -> ok] :
                /\ \A a, b \in 1..m : a < b => s[a] # s[b] /\ sc(s[a]) >= sc(s[b])
                /\ \A x \in ok :
                      (\A a \in 1..m : s[a] # x) => \A a \in 1..m : sc(s[a]) >= sc(x) }
    IN  { [j \in 1..m |-> [id |-> s[j], metadata |-> service[s[j]].metadata,
                           score |-> sc(s[j])]] : s \in Orders }

(***************************************************************************)
(* State.                                                                  *)
(***************************************************************************)
VARIABLES
    SENTENCE_TRANSFORMERS_AVAILABLE, \* module flag set by the import
    FAISS_AVAILABLE,                 \* module flag set by the import
    deployment,          \* the use_pinecone argument the application passes,
                         \* and whether `import pinecone` succeeds
    constructed,         \* VectorStore(...) returned (it did not raise)
    use_pinecone,        \* self.use_pinecone
    enabled,             \* self.enabled
    index,               \* self.index
    metadata_store,      \* self.metadata_store
    faiss_index_bin,     \* the file "faiss_index.bin"
    vector_metadata_json,\* the file "vector_metadata.json"
    pinecone_service,    \* the content of the remote index: id -> entry
    ret,                 \* how the last call ended
    from_empty,          \* constructed empty and every store_snippet since returned
    returned_ids,        \* while from_empty: the ids store_snippet returned, in order
    deleted_ids,         \* ids of stored snippets delete_snippet was called for
    app,                 \* main.py: debug_analyzer.client, the last HTTP response,
                         \* manager.active_connections, and what each websocket
                         \* handler is doing
    event_loop           \* the event loop: the coroutine that runs, the frame of
                         \* each store_snippet coroutine, and what the last
                         \* search found in memory

object == <<SENTENCE_TRANSFORMERS_AVAILABLE, FAISS_AVAILABLE, deployment,
            constructed, use_pinecone, enabled>>
memory == <<index, metadata_store>>
disk == <<faiss_index_bin, vector_metadata_json>>
history == <<returned_ids, from_empty, deleted_ids>>
vars == <<object, memory, disk, pinecone_service, ret, history, event_loop, app>>

\* The outcome of a call: what it raised or returned.  fail names the
\* statement the environment made raise ("none": no statement).  ids, slots
\* and found describe a search: the id of the record behind each result, the
\* slot of the index answer it came from, and the index answer itself.
NoRet == [op |-> None, fail |-> "none", raised |-> None, id |-> None,
          results |-> <<>>,
          ids |-> <<>>, slots |-> <<>>, found |-> <<>>,
          query |-> None, language |-> None, limit |-> 0]

(***************************************************************************)
(* The event loop.                                                         *)
(***************************************************************************)
\* The handlers whose coroutines share the store.
Tasks == {"t1", "t2"}

NoSnippet == [code |-> None, description |-> None, language |-> None, user_id |-> None]

\* A frame of store_snippet: the statement to run next, the arguments, and
\* metadata["id"].
IdleFrame == [pc |-> "idle", snippet |-> NoSnippet, id |-> 0]

\* No coroutine exists and no search has run.
IdleLoop == [running |-> None,
             frames |-> [t \in Tasks |-> IdleFrame],
             seen |-> [vectors |-> <<>>, records |-> <<>>]]

(***************************************************************************)
(* The application of main.py.                                             *)
(***************************************************************************)
\* The websocket connections of the model.
Sockets == {"w1", "w2", "w3"}

NoResponse == [endpoint |-> None, status |-> 0, keys |-> {}, fail |-> "none",
               escaped |-> None]

\* The module was imported: debug_analyzer has a Gemini client or not, no
\* request was answered, manager.active_connections is empty and no
\* websocket handler runs.  handlers[w] is the await at which the handler of
\* w is suspended, "none" before it is called, "returned" or "raised" after
\* it ended; closed[w] says that the client of w closed the connection;
\* appended[w] and removed[w] count the calls of append and remove for w.
IdleApp(gemini) ==
    [client |-> gemini,
     response |-> NoResponse,
     active_connections |-> <<>>,
     handlers |-> [w \in Sockets |-> "none"],
     closed |-> [w \in Sockets |-> FALSE],
     appended |-> [w \in Sockets |-> 0],
     removed |-> [w \in Sockets |-> 0]]

(***************************************************************************)
(* Construction.                                                           *)
(***************************************************************************)
\* _init_faiss without the read of the file: always a fresh index.
InitFaissFresh(fa, file) ==
    IF ~fa THEN [raised |-> None, index |-> NoIndex]
    ELSE [raised |-> None, index |-> IndexFlatL2(<<>>)]

\* _init_faiss: a fresh IndexFlatL2, replaced by the file's index if the
\* file exists; read_index raises on a file it cannot parse.
InitFaiss(fa, file) ==
    IF ~fa THEN [raised |-> None, index |-> NoIndex]
    ELSE IF file.state = "missing"
         THEN [raised |-> None, index |-> IndexFlatL2(<<>>)]
    ELSE IF file.state = "ok"
         THEN [raised |-> None, index |-> IndexFlatL2(file.content)]
    ELSE [raised |-> "RuntimeError", index |-> NoIndex]

\* _init_pinecone: the remote index, or the FAISS fallback on ImportError.
InitPinecone(pc, fa, file) ==
    IF pc THEN [raised |-> None, use_pinecone |-> TRUE, index |-> PineconeIndex]
    ELSE [raised |-> InitFaiss(fa, file).raised, use_pinecone |-> FALSE,
          index |-> InitFaiss(fa, file).index]

\* _load_metadata without the os.path.exists test: open raises on no file.
LoadMetadataUnguarded(file) ==
    IF file.state = "missing"
    THEN [raised |-> "FileNotFoundError", metadata_store |-> <<>>]
    ELSE IF file.state = "ok" THEN [raised |-> None, metadata_store |-> file.content]
    ELSE [raised |-> "JSONDecodeError", metadata_store |-> <<>>]

\* _load_metadata: json.load of the file if it exists.
LoadMetadata(file) ==
    IF file.state = "missing" THEN [raised |-> None, metadata_store |-> <<>>]
    ELSE IF file.state = "ok" THEN [raised |-> None, metadata_store |-> file.content]
    ELSE [raised |-> "JSONDecodeError", metadata_store |-> <<>>]

\* VectorStore.__init__(use_pinecone=up) with the module flags st and fa,
\* pinecone importable or not (pc), and the two files as found on disk.
VectorStoreInit(up, st, fa, pc, index_file, metadata_file) ==
    LET off == [raised |-> None, enabled |-> FALSE, use_pinecone |-> up,
                index |-> NoIndex, metadata_store |-> <<>>]
        i == IF up THEN InitPinecone(pc, fa, index_file)
             ELSE [raised |-> InitFaiss(fa, index_file).raised,
                   use_pinecone |-> FALSE,
                   index |-> InitFaiss(fa, index_file).index]
        m == LoadMetadata(metadata_file)
    IN  IF ~st THEN off
        ELSE IF ~up /\ ~fa THEN off
        ELSE IF i.raised # None THEN [off EXCEPT !.raised = i.raised]
        ELSE IF m.raised # None
             THEN [off EXCEPT !.raised = m.raised, !.use_pinecone = i.use_pinecone]
        ELSE [raised |-> None, enabled |-> TRUE, use_pinecone |-> i.use_pinecone,
              index |-> i.index, metadata_store |-> m.metadata_store]

\* The deployment constructs a FAISS-backed store: embeddings and faiss are
\* importable and the constructor does not get a Pinecone index.
LocalDeployment ==
    /\ SENTENCE_TRANSFORMERS_AVAILABLE /\ FAISS_AVAILABLE
    /\ ~(deployment.use_pinecone /\ deployment.pinecone)

\* The store holds no snippet.
Empty(idx, store, service) ==
    idx.vectors = <<>> /\ store = <<>> /\ (idx.kind = "pinecone.Index" => DOMAIN service = {})

ProcessInit(gemini) ==
    /\ faiss_index_bin = Missing
    /\ vector_metadata_json = Missing
    /\ pinecone_service = <<>>
    /\ \E up, st, fa, pc \in BOOLEAN :
         LET o == VectorStoreInit(up, st, fa, pc, Missing, Missing) IN
         /\ SENTENCE_TRANSFORMERS_AVAILABLE = st
         /\ FAISS_AVAILABLE = fa
         /\ deployment = [use_pinecone |-> up, pinecone |-> pc]
         /\ constructed = TRUE
         /\ use_pinecone = o.use_pinecone
         /\ enabled = o.enabled
         /\ index = o.index
         /\ metadata_store = o.metadata_store
    /\ ret = [NoRet EXCEPT !.op = "__init__"]
    /\ returned_ids = <<>>
    /\ from_empty = TRUE
    /\ deleted_ids = {}
    /\ event_loop = IdleLoop
    /\ app = IdleApp(gemini)

\* The process as main.py leaves it when imported, on no files.
Init == ProcessInit(FALSE)

\* A new process of the same deployment (the same call of the constructor,
\* the same installed packages) constructs the store from what is on disk.
Construct ==
    LET o == VectorStoreInit(deployment.use_pinecone,
                             SENTENCE_TRANSFORMERS_AVAILABLE, FAISS_AVAILABLE,
                             deployment.pinecone,
                             faiss_index_bin, vector_metadata_json) IN
    /\ UNCHANGED <<SENTENCE_TRANSFORMERS_AVAILABLE, FAISS_AVAILABLE, deployment>>
    /\ constructed' = (o.raised = None)
    /\ use_pinecone' = o.use_pinecone
    /\ enabled' = o.enabled
    /\ index' = o.index
    /\ metadata_store' = o.metadata_store
    /\ ret' = [NoRet EXCEPT !.op = "__init__", !.raised = o.raised]
    /\ returned_ids' = <<>>
    /\ from_empty' = (o.raised = None /\ Empty(o.index, o.metadata_store, pinecone_service))
    /\ event_loop' = IdleLoop
    /\ app' = IdleApp(app.client)
    /\ UNCHANGED <<disk, pinecone_service, deleted_ids>>

(***************************************************************************)
(* store_snippet.                                                          *)
(***************************************************************************)
\* Ids counted from 1.
NextIdFromOne(store) == Len(store) + 1

\* "id": len(self.metadata_store)
NextId(store) == Len(store)

\* The record built for a snippet; its id is the current length of the list.
Metadata(store, code, description, language, user_id) ==
    [id |-> NextId(store), code |-> code, description |-> description,
     language |-> language, user_id |-> user_id]

\* The record appended before the embedding is computed.
CompletedAppendFirst(fail) ==
    CASE fail = "encode" -> {"append"}
      [] fail = "add" -> {"encode", "append"}
      [] fail = "write_index" -> {"encode", "add", "append"}
      [] fail = "save_metadata" -> {"encode", "add", "append", "write_index"}
      [] fail = "upsert" -> {"encode"}
      [] OTHER -> {"encode", "add", "append", "write_index", "save_metadata", "upsert"}

\* The index file written before the record is appended.
CompletedWriteFirst(fail) ==
    CASE fail = "encode" -> {}
      [] fail = "add" -> {"encode"}
      [] fail = "write_index" -> {"encode", "add"}
      [] fail = "save_metadata" -> {"encode", "add", "write_index", "append"}
      [] fail = "upsert" -> {"encode"}
      [] OTHER -> {"encode", "add", "append", "write_index", "save_metadata", "upsert"}

\* The statements of store_snippet that ran to completion when the statement
\* `fail` raised ("none": all of them), in the order the code runs them:
\* encode, then index.add, metadata_store.append, write_index and
\* _save_metadata on the FAISS path, or index.upsert on the Pinecone path.
Completed(fail) ==
    CASE fail = "encode" -> {}
      [] fail = "add" -> {"encode"}
      [] fail = "write_index" -> {"encode", "add", "append"}
      [] fail = "save_metadata" -> {"encode", "add", "append", "write_index"}
      [] fail = "upsert" -> {"encode"}
      [] OTHER -> {"encode", "add", "append", "write_index", "save_metadata", "upsert"}

\* What a statement raises.
Raised(fail) ==
    CASE fail = "none" -> None
      [] fail = "encode" -> "EmbeddingError"
      [] fail = "add" -> "RuntimeError"
      [] fail = "index" -> "RuntimeError"
      [] fail = "upsert" -> "PineconeError"
      [] OTHER -> "IOError"

\* A file after a write of `content` by the statement `step`: written when
\* the statement completed, left as it was when the statement did not start
\* or raised on opening the file, unreadable when it raised after opening
\* (both writers truncate on open).
Written(file, content, step, fail, torn) ==
    IF step \in Completed(fail) THEN File(content)
    ELSE IF fail = step /\ torn THEN Unreadable
    ELSE file

\* The store cannot take another snippet within the bounds of the model.
Full == \/ Len(index.vectors) >= MaxStored
        \/ Len(metadata_store) >= MaxStored
        \/ Len(returned_ids) >= MaxStored

store_snippet(code, description, language, user_id, fail, torn) ==
    LET done == Completed(fail)
        embedding == Encode(SearchableText(code, description))
        metadata == Metadata(metadata_store, code, description, language, user_id)
        id == Str(metadata.id)
        returns == [NoRet EXCEPT !.op = "store_snippet", !.id = id]
        raises == [NoRet EXCEPT !.op = "store_snippet", !.fail = fail,
                                !.raised = IF fail = "add"
                                           THEN IndexRaised(index, embedding)
                                           ELSE Raised(fail)]
        outcome == IF fail = "none" THEN returns ELSE raises
        log == /\ returned_ids' = IF from_empty /\ fail = "none"
                                  THEN Append(returned_ids, id) ELSE <<>>
               /\ from_empty' = (from_empty /\ fail = "none")
               /\ deleted_ids' = IF fail = "none" THEN deleted_ids \ {id} ELSE deleted_ids
    IN
    /\ constructed
    /\ torn => fail \in {"write_index", "save_metadata"}
    /\ IF ~enabled THEN
           \* return "0"
           /\ fail = "none"
           /\ ret' = [NoRet EXCEPT !.op = "store_snippet", !.id = "0"]
           /\ returned_ids' = IF from_empty THEN Append(returned_ids, "0") ELSE <<>>
           /\ UNCHANGED <<memory, disk, pinecone_service, from_empty, deleted_ids>>
       ELSE IF use_pinecone THEN
           /\ fail \in {"none", "encode", "upsert"}
           /\ pinecone_service' =
                 IF "upsert" \in done
                 THEN Upsert(pinecone_service, id, embedding, metadata)
                 ELSE pinecone_service
           /\ ret' = outcome
           /\ log
           /\ UNCHANGED <<memory, disk>>
       ELSE IF FAISS_AVAILABLE /\ index.kind # None THEN
           /\ fail \in {"none", "encode", "add", "write_index", "save_metadata"}
           /\ Mismatch(index, embedding) => fail \in {"encode", "add"}
           /\ index' = IF "add" \in done THEN IndexAdd(index, embedding) ELSE index
           /\ metadata_store' = IF "append" \in done
                                THEN Append(metadata_store, metadata)
                                ELSE metadata_store
           /\ faiss_index_bin' =
                 Written(faiss_index_bin, index'.vectors, "write_index", fail, torn)
           /\ vector_metadata_json' =
                 Written(vector_metadata_json, metadata_store', "save_metadata", fail, torn)
           /\ ret' = outcome
           /\ log
           /\ UNCHANGED pinecone_service
       ELSE
           \* no index: nothing is stored and the id is returned
           /\ fail \in {"none", "encode"}
           /\ ret' = outcome
           /\ log
           /\ UNCHANGED <<memory, disk, pinecone_service>>
    /\ UNCHANGED object

(***************************************************************************)
(* search.                                                                 *)
(***************************************************************************)
\* The overfetch made only for a search with a language filter.
RequestedIfFiltered(limit, language) ==
    IF language # None THEN limit * 2 ELSE limit

\* The number of neighbours search asks the FAISS index for: limit * 2.
Requested(limit, language) == limit * 2

\* if idx < len(self.metadata_store)
InRange(idx, store) == idx < Len(store)

\* The filter with its comparison inverted.
SkippedInverted(language, metadata) ==
    language # None /\ metadata.language = language

\* if language and metadata["language"] != language: continue
Skipped(language, metadata) == language # None /\ metadata.language # language

\* The break one result late.
LimitReachedLate(results, limit) == Len(results) > limit

\* if len(results) >= limit: break
LimitReached(results, limit) == Len(results) >= limit

\* The loop over zip(indices[0], distances[0]), from slot j on: what it
\* raises, or the results it leaves.  Each result carries, besides the four
\* keys of the code's dict, the id of its record and the slot it came from.
RECURSIVE SearchLoop(_, _, _, _, _, _)
SearchLoop(found, j, store, language, limit, results) ==
    IF j > Len(found) THEN [raised |-> None, results |-> results]
    ELSE IF ~InRange(found[j].idx, store)
         THEN SearchLoop(found, j + 1, store, language, limit, results)
    ELSE IF ~PyHasItem(store, found[j].idx)
         THEN [raised |-> "IndexError", results |-> <<>>]
    ELSE LET metadata == PyItem(store, found[j].idx)
             more == Append(results,
                        [code |-> metadata.code,
                         description |-> metadata.description,
                         language |-> metadata.language,
                         score |-> found[j].distance,
                         id |-> Str(metadata.id),
                         slot |-> j])
         IN  IF Skipped(language, metadata)
             THEN SearchLoop(found, j + 1, store, language, limit, results)
             ELSE IF LimitReached(more, limit)
                  THEN [raised |-> None, results |-> more]
             ELSE SearchLoop(found, j + 1, store, language, limit, more)

\* The list comprehension over results["matches"].
Matches(matches) ==
    [j \in 1..Len(matches) |->
        [code |-> matches[j].metadata.code,
         description |-> matches[j].metadata.description,
         language |-> matches[j].metadata.language,
         score |-> matches[j].score,
         id |-> matches[j].id,
         slot |-> j]]

\* The dicts the caller receives.
Results(rs) ==
    [j \in 1..Len(rs) |->
        [code |-> rs[j].code, description |-> rs[j].description,
         language |-> rs[j].language, score |-> rs[j].score]]

Returned(call, rs, found) ==
    [call EXCEPT !.results = Results(rs),
                 !.ids = [j \in 1..Len(rs) |-> rs[j].id],
                 !.slots = [j \in 1..Len(rs) |-> rs[j].slot],
                 !.found = found]

search(query, language, limit, fail) ==
    LET call == [NoRet EXCEPT !.op = "search", !.query = query,
                              !.language = language, !.limit = limit]
        fails == [NoRet EXCEPT !.op = "search", !.fail = fail]
        query_embedding == Encode(query)
    IN
    /\ constructed
    /\ IF ~enabled THEN
           \* return []
           /\ fail = "none"
           /\ ret' = call
       ELSE IF fail = "encode" THEN
           ret' = [fails EXCEPT !.raised = Raised(fail)]
       ELSE IF use_pinecone THEN
           /\ fail \in {"none", "index"}
           /\ IF fail = "index" THEN ret' = [fails EXCEPT !.raised = "PineconeError"]
              ELSE \E matches \in PineconeQuery(pinecone_service, query_embedding,
                                                limit, language) :
                      ret' = Returned(call, Matches(matches), <<>>)
       ELSE IF index.kind = None THEN
           \* self.index is None: self.index.search raises
           /\ fail = "none"
           /\ ret' = [call EXCEPT !.raised = "AttributeError"]
       ELSE
           /\ fail \in {"none", "index"}
           /\ Mismatch(index, query_embedding) => fail = "index"
           /\ IF fail = "index"
              THEN ret' = [fails EXCEPT !.raised = IndexRaised(index, query_embedding)]
              ELSE \E found \in IndexSearch(index, query_embedding,
                                              Requested(limit, language)) :
                      LET loop == SearchLoop(found, 1, metadata_store, language,
                                             limit, <<>>)
                      IN  ret' = IF loop.raised # None
                                 THEN [call EXCEPT !.raised = loop.raised, !.found = found]
                                 ELSE Returned(call, loop.results, found)
    /\ UNCHANGED <<object, memory, disk, pinecone_service, history>>

(***************************************************************************)
(* delete_snippet.                                                         *)
(***************************************************************************)
\* The ids delete_snippet is called with: the first id a store assigns, and
\* one that no store assigns within the bounds.
SnippetIds == { Str(0), Str(MaxStored) }

\* A snippet with this id is stored.
Stored(snippet_id) ==
    IF use_pinecone THEN snippet_id \in DOMAIN pinecone_service
    ELSE \E i \in 1..Len(metadata_store) : Str(metadata_store[i].id) = snippet_id

delete_snippet(snippet_id, fail) ==
    LET call == [NoRet EXCEPT !.op = "delete_snippet"] IN
    /\ constructed
    /\ IF use_pinecone THEN
           IF index.kind = None THEN
               \* a disabled store asked for Pinecone: self.index is None
               /\ fail = "none"
               /\ ret' = [call EXCEPT !.raised = "AttributeError"]
               /\ UNCHANGED <<pinecone_service, deleted_ids>>
           ELSE
               /\ fail \in {"none", "index"}
               /\ ret' = [call EXCEPT !.fail = fail, !.raised =
                              IF fail = "index" THEN "PineconeError" ELSE None]
               /\ pinecone_service' = IF fail = "none"
                                      THEN Delete(pinecone_service, snippet_id)
                                      ELSE pinecone_service
               /\ deleted_ids' = IF fail = "none" /\ Stored(snippet_id)
                                 THEN deleted_ids \cup {snippet_id}
                                 ELSE deleted_ids
       ELSE
           \* pass
           /\ fail = "none"
           /\ ret' = call
           /\ deleted_ids' = IF enabled /\ Stored(snippet_id)
                             THEN deleted_ids \cup {snippet_id}
                             ELSE deleted_ids
           /\ UNCHANGED pinecone_service
    /\ UNCHANGED <<object, memory, disk, returned_ids, from_empty>>

(***************************************************************************)
(* The specification.                                                      *)
(***************************************************************************)
StoreFailPoints == {"none", "encode", "add", "write_index", "save_metadata", "upsert"}
SearchFailPoints == {"none", "encode", "index"}

Store == \E s \in Snippets, fail \in StoreFailPoints, torn \in BOOLEAN :
            /\ ~Full
            /\ store_snippet(s.code, s.description, s.language, s.user_id, fail, torn)
            /\ UNCHANGED <<event_loop, app>>

Search == \E query \in Queries, language \in LanguageFilters, limit \in Limits,
             fail \in SearchFailPoints :
             search(query, language, limit, fail) /\ UNCHANGED <<event_loop, app>>

DeleteSnippet == \E snippet_id \in SnippetIds, fail \in {"none", "index"} :
                    delete_snippet(snippet_id, fail) /\ UNCHANGED <<event_loop, app>>

Next == Construct \/ Store \/ Search \/ DeleteSnippet

Spec == Init /\ [][Next]_vars

(***************************************************************************)
(* Construction from any pair of files.  The constructor is a function of  *)
(* the deployment and of the two files it finds; here the files are any    *)
(* that store_snippet can have written (a list of vectors, a list of       *)
(* records numbered from 0), missing, or unreadable, independently.        *)
(***************************************************************************)
BoundedSeq(S) == UNION { [1..n -> S] : n \in 0..MaxStored }

Vectors == { Encode(SearchableText(s.code, s.description)) : s \in Snippets }

\* The records store_snippet appends for a list of snippets.
Records(snippets) ==
    [i \in 1..Len(snippets) |->
        [id |-> i - 1, code |-> snippets[i].code,
         description |-> snippets[i].description,
         language |-> snippets[i].language, user_id |-> snippets[i].user_id]]

IndexFiles == {Missing, Unreadable} \cup { File(v) : v \in BoundedSeq(Vectors) }
MetadataFiles ==
    {Missing, Unreadable} \cup { File(Records(s)) : s \in BoundedSeq(Snippets) }

\* Before VectorStore(...) is called.
LoadInit ==
    /\ faiss_index_bin \in IndexFiles
    /\ vector_metadata_json \in MetadataFiles
    /\ pinecone_service = <<>>
    /\ SENTENCE_TRANSFORMERS_AVAILABLE \in BOOLEAN
    /\ FAISS_AVAILABLE \in BOOLEAN
    /\ deployment \in [use_pinecone : BOOLEAN, pinecone : BOOLEAN]
    /\ constructed = FALSE
    /\ use_pinecone = deployment.use_pinecone
    /\ enabled = FALSE
    /\ index = NoIndex
    /\ metadata_store = <<>>
    /\ ret = NoRet
    /\ returned_ids = <<>>
    /\ from_empty = FALSE
    /\ deleted_ids = {}
    /\ event_loop = IdleLoop
    /\ app = IdleApp(FALSE)

SpecLoad == LoadInit /\ [][Construct]_vars

(***************************************************************************)
(* A local store started on an index file that it or a store with another  *)
(* encoder wrote.                                                          *)
(***************************************************************************)
DimInit ==
    /\ faiss_index_bin \in
          {Missing} \cup { File(<<v>>) : v \in Vectors \cup {ForeignVector} }
    /\ vector_metadata_json \in
          {Missing} \cup { File(Records(<<s>>)) : s \in Snippets }
    /\ pinecone_service = <<>>
    /\ SENTENCE_TRANSFORMERS_AVAILABLE = TRUE
    /\ FAISS_AVAILABLE = TRUE
    /\ deployment \in [use_pinecone : {FALSE}, pinecone : BOOLEAN]
    /\ constructed = FALSE
    /\ use_pinecone = deployment.use_pinecone
    /\ enabled = FALSE
    /\ index = NoIndex
    /\ metadata_store = <<>>
    /\ ret = NoRet
    /\ returned_ids = <<>>
    /\ from_empty = FALSE
    /\ deleted_ids = {}
    /\ event_loop = IdleLoop
    /\ app = IdleApp(FALSE)

DimNext == Construct \/ Store \/ Search

SpecDim == DimInit /\ [][DimNext]_vars

(***************************************************************************)
(* The integration test: a FAISS-backed store, store_snippet calls that    *)
(* all succeed, and searches with a language filter.                       *)
(***************************************************************************)
TestInit == Init /\ LocalDeployment /\ ~deployment.use_pinecone

\* One snippet more than the largest overfetch of the smallest limit holds.
TestStore == \E s \in Snippets :
                /\ Len(index.vectors) <= MaxStored
                /\ store_snippet(s.code, s.description, s.language, s.user_id,
                                 "none", FALSE)
                /\ UNCHANGED <<event_loop, app>>

TestSearch == \E query \in Queries, language \in Languages, limit \in Limits :
                 search(query, language, limit, "none") /\ UNCHANGED <<event_loop, app>>

TestNext == TestStore \/ TestSearch

SpecTest == TestInit /\ [][TestNext]_vars

(***************************************************************************)
(* Coroutines on the event loop.  Each handler awaits store_snippet or     *)
(* search on the one store of the process.  A coroutine runs statement by  *)
(* statement and keeps the loop until it ends or reaches an await; another *)
(* coroutine starts or resumes only while no coroutine holds the loop.     *)
(***************************************************************************)
\* An await right after index.add (the add handed to an executor).
AwaitsAtAdd(stmt) == stmt = "add"

\* Whether the coroutine gives the loop back at this statement of
\* store_snippet: no statement of its body is an await.
Awaits(stmt) == FALSE

\* One statement of store_snippet in frame f: the statement to run next
\* ("idle" when the call ended), how the call ended if it did, and what the
\* statement leaves in metadata["id"], in memory, in the files and in the
\* remote index.
Statement(f, raise, torn) ==
    LET s == f.snippet
        embedding == Encode(SearchableText(s.code, s.description))
        metadata == [id |-> f.id, code |-> s.code, description |-> s.description,
                     language |-> s.language, user_id |-> s.user_id]
        goes == [pc |-> "idle", end |-> "none", value |-> None, id |-> f.id,
                 index |-> index, metadata_store |-> metadata_store,
                 faiss_index_bin |-> faiss_index_bin,
                 vector_metadata_json |-> vector_metadata_json,
                 pinecone_service |-> pinecone_service]
        raises == [goes EXCEPT !.end = "raise", !.value = Raised(f.pc)]
    IN
    CASE f.pc = "enabled" ->
            IF enabled THEN [goes EXCEPT !.pc = "encode"]
            ELSE [goes EXCEPT !.end = "return", !.value = "0"]
      [] f.pc = "encode" ->
            IF raise THEN raises ELSE [goes EXCEPT !.pc = "metadata"]
      [] f.pc = "metadata" ->
            [goes EXCEPT !.id = NextId(metadata_store),
                         !.pc = IF use_pinecone THEN "upsert"
                                ELSE IF FAISS_AVAILABLE /\ index.kind # None THEN "add"
                                ELSE "return"]
      [] f.pc = "upsert" ->
            IF raise THEN raises
            ELSE [goes EXCEPT !.pc = "return",
                              !.pinecone_service =
                                  Upsert(pinecone_service, Str(f.id), embedding, metadata)]
      [] f.pc = "add" ->
            IF raise \/ Mismatch(index, embedding)
            THEN [raises EXCEPT !.value = IndexRaised(index, embedding)]
            ELSE [goes EXCEPT !.pc = "append", !.index = IndexAdd(index, embedding)]
      [] f.pc = "append" ->
            [goes EXCEPT !.pc = "write_index",
                         !.metadata_store = Append(metadata_store, metadata)]
      [] f.pc = "write_index" ->
            IF raise
            THEN [raises EXCEPT !.faiss_index_bin =
                                   IF torn THEN Unreadable ELSE faiss_index_bin]
            ELSE [goes EXCEPT !.pc = "save_metadata",
                              !.faiss_index_bin = File(index.vectors)]
      [] f.pc = "save_metadata" ->
            IF raise
            THEN [raises EXCEPT !.vector_metadata_json =
                                   IF torn THEN Unreadable ELSE vector_metadata_json]
            ELSE [goes EXCEPT !.pc = "return",
                              !.vector_metadata_json = File(metadata_store)]
      [] OTHER ->
            \* return str(metadata["id"])
            [goes EXCEPT !.end = "return", !.value = Str(f.id)]

\* A handler calls store_snippet: the coroutine takes the loop.
Call(t, s) ==
    /\ constructed
    /\ event_loop.running = None
    /\ event_loop.frames[t].pc = "idle"
    /\ ~Full
    /\ event_loop' = [event_loop EXCEPT
                         !.running = t,
                         !.frames[t] = [pc |-> "enabled", snippet |-> s, id |-> 0]]
    /\ UNCHANGED <<object, memory, disk, pinecone_service, ret, history, app>>

\* The coroutine of t runs its next statement: it holds the loop, or it was
\* suspended at an await and no coroutine holds the loop.
Step(t, raise, torn) ==
    LET f == event_loop.frames[t]
        o == Statement(f, raise, torn)
    IN
    /\ constructed
    /\ f.pc # "idle"
    /\ event_loop.running \in {t, None}
    /\ raise => f.pc \in {"encode", "add", "write_index", "save_metadata", "upsert"}
    /\ torn => raise /\ f.pc \in {"write_index", "save_metadata"}
    /\ index' = o.index
    /\ metadata_store' = o.metadata_store
    /\ faiss_index_bin' = o.faiss_index_bin
    /\ vector_metadata_json' = o.vector_metadata_json
    /\ pinecone_service' = o.pinecone_service
    /\ ret' = CASE o.end = "return" -> [NoRet EXCEPT !.op = "store_snippet", !.id = o.value]
                [] o.end = "raise" -> [NoRet EXCEPT !.op = "store_snippet",
                                                    !.fail = f.pc, !.raised = o.value]
                [] OTHER -> ret
    /\ returned_ids' = CASE o.end = "return" /\ from_empty -> Append(returned_ids, o.value)
                         [] o.end = "none" -> returned_ids
                         [] OTHER -> <<>>
    /\ from_empty' = (from_empty /\ o.end # "raise")
    /\ event_loop' = [event_loop EXCEPT
                         !.running = IF o.pc = "idle" \/ Awaits(f.pc) THEN None ELSE t,
                         !.frames[t] = IF o.pc = "idle" THEN IdleFrame
                                       ELSE [f EXCEPT !.pc = o.pc, !.id = o.id]]
    /\ UNCHANGED <<object, deleted_ids, app>>

\* A handler calls search while no coroutine holds the loop; search has no
\* await either, so it reads the index and the metadata store in one step.
Observe(query, language, limit, fail) ==
    /\ event_loop.running = None
    /\ search(query, language, limit, fail)
    /\ event_loop' = [event_loop EXCEPT
                         !.seen = [vectors |-> index.vectors,
                                   records |-> metadata_store]]
    /\ UNCHANGED app

AsyncStore == \E t \in Tasks, s \in Snippets : Call(t, s)

AsyncStep == \E t \in Tasks, raise \in BOOLEAN, torn \in BOOLEAN : Step(t, raise, torn)

AsyncSearch == \E query \in Queries, language \in LanguageFilters, limit \in Limits,
                  fail \in SearchFailPoints :
                  Observe(query, language, limit, fail)

AsyncNext == AsyncStore \/ AsyncStep \/ AsyncSearch

SpecAsync == Init /\ [][AsyncNext]_vars

(***************************************************************************)
(* The HTTP endpoints of main.py that use the store and the debug          *)
(* analyzer.  Each handler is one try block: what the block returns is the *)
(* body of a 200, an exception of class Exception raised inside it becomes *)
(* an HTTPException with status 500.  The application holds one            *)
(* VectorStore() (the local backend) and one DebugAnalyzer().              *)
(***************************************************************************)
\* The exceptions the calls of the handlers raise; all are subclasses of
\* Exception.
ExceptionClasses ==
    {"EmbeddingError", "RuntimeError", "PineconeError", "IOError", "IndexError",
     "AttributeError", "KeyError", "GeminiError", "AssertionError"}

\* except LookupError: only IndexError and KeyError are caught.
CaughtLookupErrors(exc) == exc \in {"IndexError", "KeyError"}

\* except Exception as e
Caught(exc) == exc \in ExceptionClasses

\* What the client of `endpoint` receives when the try block returned a body
\* with `keys` (raised = None) or raised.
Handled(endpoint, raised, keys, fail) ==
    IF raised = None
    THEN [endpoint |-> endpoint, status |-> 200, keys |-> keys, fail |-> fail,
          escaped |-> None]
    ELSE IF Caught(raised)
    THEN [endpoint |-> endpoint, status |-> 500, keys |-> {"detail"}, fail |-> fail,
          escaped |-> None]
    ELSE [endpoint |-> endpoint, status |-> 0, keys |-> {}, fail |-> fail,
          escaped |-> raised]

ErrorMessages == {None, "TypeError: unsupported operand", "line 3 looks odd"}

\* any(keyword in error_message.lower() for keyword in [...])
HasKeyword(error_message) == error_message = "TypeError: unsupported operand"

\* DebugAnalyzer.analyze: the dictionary it returns, or the exception of the
\* Gemini call.
Analyze(client, error_message, fail) ==
    IF ~client THEN
        [raised |-> None,
         dict |-> [k \in {"suggestions", "explanations", "fixed_code"} |->
                      CASE k = "suggestions" -> "Gemini not configured"
                        [] k = "explanations" -> "API key required"
                        [] OTHER -> None]]
    ELSE IF fail = "generate_content" THEN
        [raised |-> "GeminiError", dict |-> <<>>]
    ELSE
        [raised |-> None,
         dict |-> [k \in {"analysis", "suggestions", "fixed_code", "severity"} |->
                      CASE k = "analysis" -> "content"
                        [] k = "suggestions" -> "suggestions"
                        [] k = "fixed_code" -> None
                        [] OTHER -> IF error_message = None THEN "low"
                                    ELSE IF HasKeyword(error_message) THEN "high"
                                    ELSE "medium"]]

\* The fields of the response models.
DebugResponse == {"analysis", "suggestions", "fixed_code", "severity"}
CodeGenerationResponse == {"code", "explanation", "optimization_tips", "documentation"}

\* POST /api/debug
DebugCode == \E error_message \in ErrorMessages, fail \in {"none", "generate_content"} :
    LET analysis == Analyze(app.client, error_message, fail)
        \* analysis["analysis"], analysis["suggestions"], analysis["severity"]
        subscripted == {"analysis", "suggestions", "severity"}
        raised == IF analysis.raised # None THEN analysis.raised
                  ELSE IF ~(subscripted \subseteq DOMAIN analysis.dict) THEN "KeyError"
                  ELSE None
    IN
    /\ fail = "generate_content" => app.client
    /\ app' = [app EXCEPT !.response = Handled("debug", raised, DebugResponse, fail)]
    /\ UNCHANGED <<object, memory, disk, pinecone_service, ret, history, event_loop>>

\* GET /api/semantic-search
SemanticSearch == \E query \in Queries, language \in LanguageFilters, limit \in Limits,
                     fail \in SearchFailPoints :
    /\ search(query, language, limit, fail)
    /\ app' = [app EXCEPT !.response =
                    Handled("semantic-search", ret'.raised, {"results"}, fail)]
    /\ UNCHANGED event_loop

\* POST /api/generate: code_generator.generate returns a result or raises;
\* the result is stored without a user_id and returned.
GenerateCode == \E s \in Snippets, fail \in StoreFailPoints \cup {"generate"},
                   torn \in BOOLEAN :
    /\ ~Full
    /\ IF fail = "generate"
       THEN /\ constructed /\ ~torn
            /\ app' = [app EXCEPT !.response =
                            Handled("generate", "GeminiError", {}, fail)]
            /\ UNCHANGED <<object, memory, disk, pinecone_service, ret, history>>
       ELSE /\ store_snippet(s.code, s.description, s.language, None, fail, torn)
            /\ app' = [app EXCEPT !.response =
                            Handled("generate", ret'.raised, CodeGenerationResponse, fail)]
    /\ UNCHANGED event_loop

ApiInit == \E gemini \in BOOLEAN :
              ProcessInit(gemini) /\ LocalDeployment /\ ~deployment.use_pinecone

ApiNext == GenerateCode \/ SemanticSearch \/ DebugCode

SpecApi == ApiInit /\ [][ApiNext]_vars

(***************************************************************************)
(* The websocket endpoint of main.py.  One handler coroutine runs per      *)
(* connection; it is suspended at one of its awaits while other handlers   *)
(* run, and each step below is the code of a handler between two awaits.   *)
(***************************************************************************)
\* The awaits inside the try block.
Components == {"generate", "debug", "security"}
InTry == {"receive_text", "send_text"} \cup Components

\* list.remove(x): the list without the first occurrence of x.
RECURSIVE ListRemove(_, _)
ListRemove(list, x) ==
    IF list = <<>> THEN <<>>
    ELSE IF Head(list) = x THEN Tail(list)
    ELSE <<Head(list)>> \o ListRemove(Tail(list), x)

Holds(list, x) == \E i \in 1..Len(list) : list[i] = x

\* manager.disconnect in the except block only: not reached when the
\* handler is cancelled.
DisconnectsInExcept(exc) == exc # "CancelledError"

\* finally: manager.disconnect(websocket), on every way out of the try block
Disconnects(exc) == TRUE

\* The handler of w is called and awaits websocket.accept().
WsOpen(w) ==
    /\ app.handlers[w] = "none"
    /\ app' = [app EXCEPT !.handlers[w] = "accept"]

\* manager.connect: accept completed and the socket is appended, or accept
\* raised (outside the try block) and the handler ends.
WsConnect(w, raises) ==
    /\ app.handlers[w] = "accept"
    /\ app.closed[w] => raises
    /\ app' = IF raises
              THEN [app EXCEPT !.handlers[w] = "raised"]
              ELSE [app EXCEPT !.active_connections = Append(@, w),
                               !.appended[w] = @ + 1,
                               !.handlers[w] = "receive_text"]

\* The client of w closes the connection while the handler is suspended.
WsClose(w) ==
    /\ app.handlers[w] \in InTry \cup {"accept"}
    /\ ~app.closed[w]
    /\ app' = [app EXCEPT !.closed[w] = TRUE]

\* The way out of the try block with exception exc: except Exception prints
\* it, any other exception propagates; finally calls manager.disconnect,
\* whose list.remove raises ValueError when the socket is not in the list.
Leave(w, exc) ==
    IF ~Disconnects(exc)
    THEN [app EXCEPT !.handlers[w] = IF exc = "CancelledError" THEN "raised"
                                     ELSE "returned"]
    ELSE IF ~Holds(app.active_connections, w)
    THEN [app EXCEPT !.handlers[w] = "raised"]
    ELSE [app EXCEPT !.active_connections = ListRemove(@, w),
                     !.removed[w] = @ + 1,
                     !.handlers[w] = IF exc = "CancelledError" THEN "raised"
                                     ELSE "returned"]

\* What receive_text delivers to the handler.
Messages ==
    {"malformed", "not an object", "missing field", "unknown action"} \cup Components

\* receive_text returns a message or raises WebSocketDisconnect; the message
\* is parsed and dispatched up to the next await.
WsReceive(w, message) ==
    /\ app.handlers[w] = "receive_text"
    /\ app' = IF app.closed[w] THEN Leave(w, "WebSocketDisconnect")
              ELSE CASE message = "malformed" -> Leave(w, "JSONDecodeError")
                     [] message = "not an object" -> Leave(w, "AttributeError")
                     [] message = "missing field" -> Leave(w, "KeyError")
                     [] message = "unknown action" -> app
                     [] OTHER -> [app EXCEPT !.handlers[w] = message]

\* The awaited component call returns, and the handler awaits send_text, or
\* raises.
WsWork(w, raises) ==
    /\ app.handlers[w] \in Components
    /\ app' = IF raises THEN Leave(w, "GeminiError")
              ELSE [app EXCEPT !.handlers[w] = "send_text"]

\* send_text completes, and the handler awaits the next message, or raises.
WsSend(w, raises) ==
    /\ app.handlers[w] = "send_text"
    /\ app.closed[w] => raises
    /\ app' = IF raises THEN Leave(w, "RuntimeError")
              ELSE [app EXCEPT !.handlers[w] = "receive_text"]

\* The task of the handler is cancelled at an await inside the try block.
WsCancel(w) ==
    /\ app.handlers[w] \in InTry
    /\ app' = Leave(w, "CancelledError")

WsInit == Init /\ LocalDeployment /\ ~deployment.use_pinecone

\* The handlers do not touch the store.
WsStore == <<object, memory, disk, pinecone_service, ret, history, event_loop>>

Open == \E w \in Sockets : WsOpen(w) /\ UNCHANGED WsStore
Connect == \E w \in Sockets, raises \in BOOLEAN : WsConnect(w, raises) /\ UNCHANGED WsStore
Close == \E w \in Sockets : WsClose(w) /\ UNCHANGED WsStore
Receive == \E w \in Sockets, message \in Messages :
              WsReceive(w, message) /\ UNCHANGED WsStore
Work == \E w \in Sockets, raises \in BOOLEAN : WsWork(w, raises) /\ UNCHANGED WsStore
Send == \E w \in Sockets, raises \in BOOLEAN : WsSend(w, raises) /\ UNCHANGED WsStore
Cancel == \E w \in Sockets : WsCancel(w) /\ UNCHANGED WsStore

WsNext == Open \/ Connect \/ Close \/ Receive \/ Work \/ Send \/ Cancel

SpecWs == WsInit /\ [][WsNext]_vars

(***************************************************************************)
(* Properties.                                                             *)
(***************************************************************************)
\* The store is a usable FAISS-backed store.
Local == constructed /\ enabled /\ ~use_pinecone /\ index.kind = "IndexFlatL2"

\* The last call was a search that returned.
SearchReturned == ret.op = "search" /\ ret.raised = None

\* The ids the index holds and the ids the metadata store holds.
IndexIds ==
    IF use_pinecone THEN DOMAIN pinecone_service
    ELSE { Str(i - 1) : i \in 1..Len(index.vectors) }
MetadataIds == { Str(metadata_store[i].id) : i \in 1..Len(metadata_store) }

\* Vector i of the flat index is the embedding of record i.
Paired(i) ==
    /\ i <= Len(index.vectors)
    /\ index.vectors[i] =
          Encode(SearchableText(metadata_store[i].code, metadata_store[i].description))

\* C1: join invariant.  In every state of a FAISS-backed store the
\* non-deleted ids of the index are the non-deleted ids of the metadata store:
\* as many vectors as records, and vector i is the embedding of record i.
C1_JoinInvariant ==
    Local =>
        /\ IndexIds \ deleted_ids = MetadataIds \ deleted_ids
        /\ Len(index.vectors) = Len(metadata_store)
        /\ \A i \in 1..Len(metadata_store) : Paired(i)

\* C2: id monotonicity.  The store_snippet calls made on a store with an
\* index that was constructed empty, all of which returned, returned "0",
\* "1", ... in call order.
C2_IdMonotonicity ==
    (constructed /\ enabled /\ index.kind # None /\ from_empty) =>
        \A i \in 1..Len(returned_ids) : returned_ids[i] = Str(i - 1)

\* C3: filter correctness.  A search with a language filter returns only
\* records of that language.
C3_FilterCorrectness ==
    (SearchReturned /\ ret.language # None) =>
        \A j \in 1..Len(ret.results) : ret.results[j].language = ret.language

\* A filtered search on the FAISS index skipped the nearest neighbour, which
\* has another language, and returned fewer results than the limit.
C3_Witness ==
    /\ Local /\ SearchReturned /\ ret.language = "javascript"
    /\ Len(ret.results) >= 1 /\ Len(ret.results) < ret.limit
    /\ ret.found[1].idx >= 0
    /\ metadata_store[ret.found[1].idx + 1].language = "python"

\* C4: tombstone exclusion.  No search returns a record whose id
\* delete_snippet was called for.
C4_TombstoneExclusion ==
    SearchReturned => \A j \in 1..Len(ret.ids) : ret.ids[j] \notin deleted_ids

\* C5: atomic store.  Whatever statement of store_snippet failed before, a
\* search sees no vector without its record and no record without its vector:
\* every vector the index answered with has a record, and every record has a
\* vector.
C5_AtomicStore ==
    (Local /\ ret.op = "search") =>
        /\ \A j \in 1..Len(ret.found) :
              ret.found[j].idx >= 0 => ret.found[j].idx < Len(metadata_store)
        /\ Len(metadata_store) <= Len(index.vectors)

\* C6: a search returns at most `limit` results.
C6_AtMostLimit == SearchReturned => Len(ret.results) <= ret.limit

\* A search on the FAISS index stopped at the limit with a candidate left.
C6_Witness ==
    /\ Local /\ SearchReturned /\ ret.language = None
    /\ Len(ret.results) = ret.limit
    /\ Len(metadata_store) > ret.limit
    /\ Len(index.vectors) > ret.limit

\* C7: index order.  The results of a search on the FAISS index are a
\* subsequence of the index's ranking: each result comes from a slot the index
\* filled, later results from later slots; it is the record of that slot's
\* vector with the distance of that slot as its score; scores never decrease.
C7_IndexOrder ==
    (Local /\ SearchReturned) =>
        /\ \A j \in 1..Len(ret.results) :
              LET slot == ret.found[ret.slots[j]] IN
              /\ slot.idx >= 0
              /\ slot.idx < Len(metadata_store)
              /\ ret.ids[j] = Str(metadata_store[slot.idx + 1].id)
              /\ ret.results[j].score = slot.distance
        /\ \A j, k \in 1..Len(ret.results) :
              j < k => /\ ret.slots[j] < ret.slots[k]
                       /\ ret.results[j].score <= ret.results[k].score

\* C8: a search on a FAISS-backed store holding no snippet, with no failure
\* of the embedding model or of the index, returns the empty list and raises
\* nothing.
C8_EmptyStoreSearch ==
    (Local /\ ret.op = "search" /\ ret.fail = "none"
        /\ Empty(index, metadata_store, pinecone_service)) =>
        ret.raised = None /\ ret.results = <<>>

\* C9: a call whose embedding step fails changes neither the index, nor the
\* metadata store, nor the files, nor the remote index.
C9_EmbeddingFailureChangesNothing ==
    [][ret'.fail = "encode" => UNCHANGED <<memory, disk, pinecone_service>>]_vars

\* A store_snippet failed at the embedding on a store that holds a snippet
\* and has both files written.
C9_Witness ==
    /\ Local /\ ret.op = "store_snippet" /\ ret.fail = "encode"
    /\ Len(metadata_store) >= 1
    /\ faiss_index_bin.state = "ok" /\ vector_metadata_json.state = "ok"

\* C10: the two files are written together or not at all, detectably: a
\* construction that finds an index file and a metadata file of different
\* counts does not return as if nothing had happened.
C10_TornWriteDetected ==
    (ret.op = "__init__" /\ ret.raised = None /\ Local) =>
        Len(faiss_index_bin.content) = Len(vector_metadata_json.content)

\* C11: reconciliation on load.  A construction of a FAISS-backed store that
\* finds both files readable (or absent) does not fail, and leaves as many
\* vectors in the index as records in the metadata store, whatever the counts
\* of the two files were.
C11_ReconciledOnLoad ==
    (ret.op = "__init__" /\ LocalDeployment
        /\ faiss_index_bin.state # "unreadable"
        /\ vector_metadata_json.state # "unreadable") =>
        /\ ret.raised = None
        /\ Len(index.vectors) = Len(metadata_store)

\* What search(query, language, limit) can answer on a store, when nothing
\* in the environment fails: what it raises, or the dicts it returns.
SearchAnswers(up, en, idx, store, service, query, language, limit) ==
    IF ~en THEN { [raised |-> None, results |-> <<>>] }
    ELSE IF up THEN
        IF idx.kind = None THEN { [raised |-> "AttributeError", results |-> <<>>] }
        ELSE { [raised |-> None, results |-> Results(Matches(matches))] :
                 matches \in PineconeQuery(service, Encode(query), limit, language) }
    ELSE IF idx.kind = None THEN { [raised |-> "AttributeError", results |-> <<>>] }
    ELSE { LET loop == SearchLoop(found, 1, store, language, limit, <<>>)
           IN  [raised |-> loop.raised, results |-> Results(loop.results)] :
             found \in IndexSearch(idx, Encode(query), Requested(limit, language)) }

\* The answers of the store to every (query, language, limit).
Answers ==
    [query \in Queries, language \in LanguageFilters, limit \in Limits |->
        SearchAnswers(use_pinecone, enabled, index, metadata_store,
                      pinecone_service, query, language, limit)]

\* A file holds `content` (no file holds the empty content).
Persisted(file, content) ==
    file = File(content) \/ (file = Missing /\ content = <<>>)

\* The two files hold the index and the metadata store of a FAISS-backed
\* store: no store_snippet added a vector since the last one that completed
\* both writes.
Saved ==
    Local => /\ Persisted(faiss_index_bin, index.vectors)
             /\ Persisted(vector_metadata_json, metadata_store)

\* The step leaves the answers of the store to every search as they were
\* (they are, without computing them, when it leaves the store as it was).
SameAnswers ==
    \/ UNCHANGED <<use_pinecone, enabled, index, metadata_store, pinecone_service>>
    \/ Answers' = Answers

C14_IdsNeverReused ==
    (constructed /\ enabled /\ index.kind # None) =>
        \A i, j \in 1..Len(returned_ids) :
            i < j => \E a, b \in 0..MaxStored :
                        a < b /\ returned_ids[i] = Str(a) /\ returned_ids[j] = Str(b)

\* C15: ranking ties.  Of two results of a search on the FAISS index that
\* have the same score, the one ranked first does not have the higher id.
C15_TiesByLowerId ==
    (Local /\ SearchReturned) =>
        \A j, k \in 1..Len(ret.results) :
            (j < k /\ ret.results[j].score = ret.results[k].score) =>
                \E a, b \in 0..MaxStored :
                    a <= b /\ ret.ids[j] = Str(a) /\ ret.ids[k] = Str(b)

\* C16: delete_snippet.  A delete_snippet that the environment did not fail
\* raises NotFound on a store that holds no snippet, and after one that
\* returned, no snippet it was called for is still stored.
C16_DeleteRemovesOrNotFound ==
    (constructed /\ enabled /\ index.kind # None
        /\ ret.op = "delete_snippet" /\ ret.fail = "none") =>
        /\ Empty(index, metadata_store, pinecone_service) => ret.raised = "NotFound"
        /\ ret.raised = None => \A id \in deleted_ids : ~Stored(id)

\* As many vectors as records, and vector i is the embedding of record i.
JoinHolds ==
    /\ Len(index.vectors) = Len(metadata_store)
    /\ \A i \in 1..Len(metadata_store) : Paired(i)

\* C17: persistence failure.  A store_snippet whose index file write or
\* metadata file write fails raises, and leaves the in-memory index and
\* metadata store as consistent as they were; and a store_snippet that
\* returns on a FAISS-backed store leaves in the two files the whole in-memory
\* index and metadata store.
C17_PersistenceFailure ==
    [][/\ (ret'.op = "store_snippet" /\ ret'.fail \in {"write_index", "save_metadata"}) =>
             /\ ret'.raised = "IOError"
             /\ JoinHolds => JoinHolds'
       /\ (Local /\ ret'.op = "store_snippet" /\ ret'.raised = None) =>
             /\ faiss_index_bin' = File(index'.vectors)
             /\ vector_metadata_json' = File(metadata_store')]_vars

\* A store_snippet failed at the index file write on a consistent store: the
\* snippet is in memory, paired with its vector, and not in the file.
C17_Witness ==
    /\ Local /\ ret.op = "store_snippet" /\ ret.fail = "write_index"
    /\ JoinHolds /\ Len(metadata_store) >= 1
    /\ faiss_index_bin.content # index.vectors

\* C18: persist on every store.  After a store_snippet that returned, on a
\* store with an index of either backend, the index file holds the vectors of
\* the in-memory index, the metadata file holds the in-memory records, and the
\* record just stored is one of them.
C18_PersistOnEveryStore ==
    (constructed /\ enabled /\ index.kind # None
        /\ ret.op = "store_snippet" /\ ret.raised = None) =>
        /\ faiss_index_bin.content = index.vectors
        /\ vector_metadata_json.content = metadata_store
        /\ \E i \in 1..Len(metadata_store) : Str(metadata_store[i].id) = ret.id

\* C19: construction without files.  A construction that finds one or both
\* of the two files missing, and the other readable, does not fail; it takes
\* the missing index file for an empty index and the missing metadata file for
\* an empty list, so with both missing the store holds no vector and no record.
C19_MissingFilesAreEmpty ==
    (ret.op = "__init__"
        /\ (faiss_index_bin = Missing \/ vector_metadata_json = Missing)
        /\ faiss_index_bin.state # "unreadable"
        /\ vector_metadata_json.state # "unreadable") =>
        /\ ret.raised = None /\ constructed
        /\ vector_metadata_json = Missing => metadata_store = <<>>
        /\ faiss_index_bin = Missing => index.vectors = <<>>
        /\ (LocalDeployment /\ vector_metadata_json.state = "ok") =>
              metadata_store = vector_metadata_json.content
        /\ (LocalDeployment /\ faiss_index_bin.state = "ok") =>
              index.vectors = faiss_index_bin.content

\* A FAISS-backed store was constructed from a metadata file of two records
\* and no index file.
C19_Witness ==
    /\ ret.op = "__init__" /\ Local
    /\ faiss_index_bin = Missing /\ vector_metadata_json.state = "ok"
    /\ Len(metadata_store) = 2 /\ index.vectors = <<>>

\* C20: store then search finds it.  On a FAISS-backed store where every
\* store_snippet succeeded, a search with the language of a stored snippet
\* returns at least one result, whatever else the store holds (for every limit
\* of the model; the test searches with limit 5, and the index is asked for
\* limit * 2 neighbours whatever the limit).
C20_StoreThenSearchFinds ==
    (Local /\ ret.op = "search" /\ ret.fail = "none" /\ ret.language # None
        /\ \E i \in 1..Len(metadata_store) :
              metadata_store[i].language = ret.language) =>
        /\ ret.raised = None
        /\ Len(ret.results) >= 1

\* C12: store appears atomic to concurrent searches.  With store_snippet and
\* search coroutines interleaved on one store, what a search finds in memory
\* has as many vectors as records, and vector i is the embedding of record i:
\* no vector without its record and no record without its vector.
C12_StoreAppearsAtomic ==
    LET seen == event_loop.seen IN
    /\ Len(seen.vectors) = Len(seen.records)
    /\ \A i \in 1..Len(seen.records) :
          seen.vectors[i] =
             Encode(SearchableText(seen.records[i].code, seen.records[i].description))

\* A search found one snippet in memory, and the store_snippet coroutine of
\* another call has since added its vector and not yet appended its record.
C12_Witness ==
    /\ Local /\ ret.op = "search"
    /\ Len(event_loop.seen.records) = 1
    /\ \E t \in Tasks : event_loop.frames[t].pc = "append"
    /\ Len(index.vectors) = 2 /\ Len(metadata_store) = 1

\* C21: unavailable embeddings.  On a store constructed without the embedding
\* function (sentence-transformers not importable), store_snippet returns no
\* id and search returns no list: both raise.
C21_UnavailableIsAnError ==
    (constructed /\ ~SENTENCE_TRANSFORMERS_AVAILABLE
        /\ ret.op \in {"store_snippet", "search"}) =>
        ret.raised # None

\* C22: drop-in remote backend.  The store_snippet calls made on a Pinecone
\* store that was constructed empty, all of which returned and none of which
\* was followed by a delete, returned the ids the FAISS path returns for them
\* ("0", "1", ... in call order), and the remote index holds one entry per
\* call: no store overwrote an earlier snippet.
C22_DropInRemote ==
    (constructed /\ enabled /\ use_pinecone /\ index.kind = "pinecone.Index"
        /\ from_empty /\ deleted_ids = {}) =>
        /\ returned_ids = [i \in 1..Len(returned_ids) |-> Str(i - 1)]
        /\ Cardinality(DOMAIN pinecone_service) = Len(returned_ids)

\* C27: distinct ranked results.  No result of a search on the FAISS index
\* comes from a slot the index left unfilled (label -1), and no record is
\* behind two results of one search.
C27_DistinctRankedResults ==
    (Local /\ SearchReturned) =>
        /\ \A j \in 1..Len(ret.results) : ret.found[ret.slots[j]].idx # -1
        /\ \A j, k \in 1..Len(ret.results) : j # k => ret.ids[j] # ret.ids[k]

\* C26: overfetch.  Every search that reaches the FAISS index asks it for
\* limit * 2 candidates, with or without a language filter: the index answers
\* with that many slots.
C26_Overfetch ==
    (Local /\ ret.op = "search" /\ ret.fail = "none") =>
        Len(ret.found) = ret.limit * 2

\* A search without a language filter and with limit 2 returned after the
\* index answered with four slots.
C26_Witness ==
    /\ Local /\ SearchReturned /\ ret.language = None /\ ret.limit = 2
    /\ Len(ret.found) = 4 /\ Len(ret.results) >= 1

\* C28: positions.  In every state of a FAISS-backed store that was
\* constructed empty, calls in progress and calls that failed included, the
\* record at position i of the metadata store has id i and vector i of the
\* index is its embedding (positions counted from 0).
C28_RecordAtItsPosition ==
    Local =>
        \A i \in 1..Len(metadata_store) :
            metadata_store[i].id = i - 1 /\ Paired(i)

\* The store holds two records, the second of which was appended by a call
\* that then failed at a file write.
C28_Witness ==
    /\ Local /\ Len(metadata_store) = 2 /\ metadata_store[2].id = 1
    /\ ret.op = "store_snippet" /\ ret.fail \in {"write_index", "save_metadata"}
    /\ Len(vector_metadata_json.content) = 1

\* C29: concurrent stores.  The store_snippet coroutines run on a store with
\* an index, under every interleaving of the event loop, returned pairwise
\* different ids, and no two records of the metadata store have the same id.
C29_ConcurrentIdsDistinct ==
    (constructed /\ enabled /\ index.kind # None) =>
        /\ \A i, j \in 1..Len(returned_ids) :
              i # j => returned_ids[i] # returned_ids[j]
        /\ \A i, j \in 1..Len(metadata_store) :
              i # j => metadata_store[i].id # metadata_store[j].id

\* C24: the semantic-search endpoint answers 200 with a body holding the key
\* "results" whenever search returns, and answers 500 whenever search
\* raises; no exception of search escapes the handler.
C24_SearchEndpoint ==
    app.response.endpoint = "semantic-search" =>
        /\ ret.op = "search"
        /\ app.response.escaped = None
        /\ ret.raised = None =>
              app.response.status = 200 /\ "results" \in app.response.keys
        /\ ret.raised # None => app.response.status = 500

\* A search on the empty local store raised IndexError and was answered 500.
C24_Witness ==
    /\ app.response.endpoint = "semantic-search"
    /\ app.response.status = 500
    /\ ret.op = "search" /\ ret.raised = "IndexError"

\* C25: the debug endpoint answers a request whose analysis did not fail,
\* with or without an error message and with or without a Gemini client,
\* with 200 and a body containing both "suggestions" and "explanations".
C25_DebugEndpoint ==
    (app.response.endpoint = "debug" /\ app.response.fail = "none") =>
        /\ app.response.status = 200
        /\ {"suggestions", "explanations"} \subseteq app.response.keys

\* C30: a socket is in manager.active_connections exactly while its handler
\* is between a completed connect and its termination; a handler that ended
\* removed its socket exactly once if it had appended it (and never
\* otherwise), so no socket of an ended handler, closed or not, remains in
\* the list, whatever the interleaving of the handlers.
C30_ConnectionTracking ==
    \A w \in Sockets :
        /\ Holds(app.active_connections, w) <=> app.handlers[w] \in InTry
        /\ Cardinality({i \in 1..Len(app.active_connections) :
                            app.active_connections[i] = w}) <= 1
        /\ app.handlers[w] \in {"returned", "raised"} =>
              app.removed[w] = app.appended[w]
        /\ app.removed[w] <= 1

\* One handler ended on a client disconnect, one was cancelled, both removed
\* their sockets once, and the third socket is still connected.
C30_Witness ==
    \E w1, w2, w3 \in Sockets :
        /\ app.handlers[w1] = "returned" /\ app.closed[w1] /\ app.removed[w1] = 1
        /\ app.handlers[w2] = "raised" /\ app.removed[w2] = 1
        /\ app.handlers[w3] = "send_text" /\ app.active_connections = <<w3>>

\* C23: every vector held by the index of a local store has embedding_dim
\* components, and a store_snippet whose embedding has another length than
\* the index's dimension fails with DimensionMismatch.
C23_DimensionInvariant ==
    Local =>
        /\ \A i \in 1..Len(index.vectors) : Len(index.vectors[i]) = embedding_dim
        /\ (ret.op = "store_snippet" /\ Dim(index) # embedding_dim) =>
              ret.raised = "DimensionMismatch"

====
